---- MODULE Spec2Model ----
(***************************************************************************)
(* The two extraction scripts of the repository, extract_arrays.py and     *)
(* extract-myseq.py, as one state machine.  A behaviour is one run of one  *)
(* script: argument parsing has happened, then the dataset is read, the    *)
(* layer indices are validated and normalised, every batch gets a forward  *)
(* pass and every sequence of the batch gets its loop body (slice, reduce, *)
(* write).  The pretrained model, the FASTA reader and the filesystem are  *)
(* external: the forward pass produces a tensor whose entries identify     *)
(* (layer, sequence, position), and a write may fail.                      *)
(***************************************************************************)
EXTENDS Integers, Sequences, FiniteSets, TLC

(* ------------------------------ bounds --------------------------------- *)
\* model.num_layers of the loaded model
NumLayers == 1
\* longest --repr_layers list
MaxReprLayers == 2
\* most sequences in the whole input
MaxSeqs == 2
\* most residues in one sequence
MaxLen == 3
\* most *.fa files in the folder given to extract-myseq.py
MaxFiles == 2

VARIABLES
    script,            \* which of the two scripts runs
    include,           \* args.include
    args_repr_layers,  \* args.repr_layers
    input,             \* the FASTA input: files, batches, sequences
    pc,                \* position of the run
    fileIdx,           \* extract-myseq.py: index of the file being processed
    batchIdx,          \* batch_idx + 1 of the batch being processed
    i,                 \* index of the sequence in its batch, from 0
    repr_layers,       \* the normalised layer indices
    representations,   \* layer -> tensor of the current batch
    result,            \* the variable `result`
    res,               \* extract-myseq.py: the variable `res`
    output_file,       \* args.output_file
    outdir,            \* whether args.output_dir has been created
    files,             \* the filesystem under output_dir: path -> content
    log,               \* every write attempted, in order
    forwards           \* number of forward passes executed

vars == <<script, include, args_repr_layers, input, pc, fileIdx, batchIdx, i,
          repr_layers, representations, result, res, output_file, outdir,
          files, log, forwards>>

(* ------------------------------ helpers -------------------------------- *)
Min(a, b) == IF a < b THEN a ELSE b

SetMax(S) == CHOOSE x \in S : \A y \in S : y <= x

SetMin(S) == CHOOSE x \in S : \A y \in S : x <= y

RECURSIVE SeqSum(_)
SeqSum(s) == IF s = <<>> THEN 0 ELSE s[1] + SeqSum(Tail(s))

\* the elements of a set of integers as an ascending sequence
RECURSIVE Ascending(_)
Ascending(S) == IF S = {} THEN <<>>
                ELSE <<SetMin(S)>> \o Ascending(S \ {SetMin(S)})

Range(s) == {s[k] : k \in 1..Len(s)}

(* --------------------------- command line ------------------------------ *)
ARRAYS == "extract_arrays.py"

MYSEQ == "extract-myseq.py"

\* choices of --include
IncludeChoices(sc) ==
    IF sc = ARRAYS THEN {"mean", "per_tok", "bos", "npy_array"}
    ELSE {"mean", "per_tok", "bos"}

\* --include is required and takes one or more values
IncludeArgs(sc) == SUBSET IncludeChoices(sc) \ {{}}

\* integers a user may pass to --repr_layers: the valid range and one
\* value beyond each end of it
LayerArgs == (-(NumLayers + 2))..(NumLayers + 1)

\* --repr_layers takes one or more integers
ReprLayerArgs ==
    UNION {[1..n -> LayerArgs] : n \in 1..MaxReprLayers}

\* the default, one out-of-range request, and the ascending lists of
\* distinct non-negative indices
CanonicalLayerArgs ==
    {<<-1>>, <<NumLayers + 1>>}
    \cup {Ascending(S) : S \in {T \in SUBSET (0..NumLayers) :
                                  Cardinality(T) \in 1..MaxReprLayers}}

(* ------------------------------- input --------------------------------- *)
\* where each of n sequences sits: (file, batch), files and batches in
\* order, every batch non-empty, files possibly empty
WellPlaced(p, n) ==
    \A k \in 1..n :
        IF k = 1 \/ p[k-1][1] # p[k][1]
        THEN p[k][2] = 1 /\ (k > 1 => p[k-1][1] < p[k][1])
        ELSE p[k][2] \in {p[k-1][2], p[k-1][2] + 1}

Placements(n, nf) ==
    {p \in [1..n -> (1..nf) \X (1..n)] : WellPlaced(p, n)}

\* the inputs with nf files and at most nmax sequences; the label of a
\* sequence is its position in the input, so labels are pairwise distinct
InputsWith(nf, nmax) ==
    UNION {{[nFiles |-> nf,
             seqs |-> [k \in 1..n |-> [label |-> k, len |-> lens[k],
                                       file |-> p[k][1], batch |-> p[k][2]]]]
              : lens \in [1..n -> 0..MaxLen], p \in Placements(n, nf)}
            : n \in 0..nmax}

\* extract_arrays.py reads one file
ArraysInputs == InputsWith(1, MaxSeqs)

\* extract-myseq.py reads the *.fa files of a folder
MyseqInputs == UNION {InputsWith(nf, MaxSeqs) : nf \in 0..MaxFiles}

\* the inputs of a script
Inputs(sc) == IF sc = ARRAYS THEN ArraysInputs ELSE MyseqInputs

\* the inputs of a script that hold at most one sequence
SmallInputs(sc) == {inp \in Inputs(sc) : Len(inp.seqs) <= 1}

\* the sequences of batch b of file f, in batch order
BatchOf(inp, f, b) ==
    SelectSeq(inp.seqs, LAMBDA s : s.file = f /\ s.batch = b)

NumBatches(inp, f) ==
    Cardinality({inp.seqs[k].batch :
                   k \in {j \in 1..Len(inp.seqs) : inp.seqs[j].file = f}})

(* ------------------------- layer indices -------------------------------- *)
\* -(model.num_layers + 1) <= i <= model.num_layers
LayerInRange(l) == -(NumLayers + 1) <= l /\ l <= NumLayers

\* assert all(... for i in args.repr_layers)
AssertHolds(layers) == \A k \in 1..Len(layers) : LayerInRange(layers[k])

\* variant: the modulus is dropped
NormalizeLayerNoWrap(l) == l + NumLayers + 1

\* (i + model.num_layers + 1) % (model.num_layers + 1)
NormalizeLayer(l) == (l + NumLayers + 1) % (NumLayers + 1)

\* repr_layers = [ ... for i in args.repr_layers]
NormalizeLayers(layers) == [k \in 1..Len(layers) |-> NormalizeLayer(layers[k])]

(* --------------------------- forward pass ------------------------------ *)
\* the entry of the layer tensor at a position of a sequence's row; the
\* hidden dimension is one; entries of different (layer, sequence,
\* position) differ, and are not linear in the position
Val(layer, label, p) == layer * 10000 + label * 100 + p * p

\* tokens per row: BOS, the longest sequence of the batch, EOS
TokLen(batch) == SetMax({batch[k].len : k \in 1..Len(batch)}) + 2

\* out["representations"]: one tensor (rows x positions) per requested layer
Forward(batch, layers) ==
    [layer \in Range(layers) |->
        [r \in 1..Len(batch) |->
            [q \in 1..TokLen(batch) |-> Val(layer, batch[r].label, q - 1)]]]

\* representations.items() iterates in ascending layer order
LayerOrder(reps) == Ascending(DOMAIN reps)

(* ------------------------- tensor operations --------------------------- *)
\* row[a:b]: positions a .. b-1 (0-based), clamped to the row's length
PySlice(row, a, b) ==
    LET lo == Min(a, Len(row))
        hi == Min(b, Len(row))
    IN  IF hi > lo THEN [k \in 1..(hi - lo) |-> row[lo + k]] ELSE <<>>

\* variant: the slice starts at the BOS position
PerTokSliceFromBos(t, idx, n) == PySlice(t[idx + 1], 0, n + 1)

\* t[i, 1 : len(strs[i]) + 1], n = len(strs[i])
PerTokSlice(t, idx, n) == PySlice(t[idx + 1], 1, n + 1)

\* .mean(0) of a slice: the exact quotient sum / n; n = 0 gives NaN
Mean0(s) == [sum |-> SeqSum(s), n |-> Len(s)]

\* variant: the mean runs over the whole row, padding included
MeanSliceWholeRow(t, idx, n) == Mean0(t[idx + 1])

\* t[i, 1 : len(strs[i]) + 1].mean(0)
MeanSlice(t, idx, n) == Mean0(PySlice(t[idx + 1], 1, n + 1))

\* t[i, 0]
BosOf(t, idx) == t[idx + 1][1]

(* ------------------------ the variable `result` ------------------------ *)
Unbound == [tag |-> "unbound", kind |-> "", val |-> <<>>]

Dict(d) == [tag |-> "dict", kind |-> "bundle", val |-> d]

\* a tensor, with the kind of representation it holds
Tensor(kind, v) == [tag |-> "tensor", kind |-> kind, val |-> v]

\* d[k] = v
DictSet(d, k, v) == [x \in (DOMAIN d) \cup {k} |-> IF x = k THEN v ELSE d[x]]

\* output_dir / f"{label}.pt" or output_dir / f"{label}"
OutputFile(label, inc) ==
    IF "npy_array" \notin inc THEN [label |-> label, ext |-> ".pt"]
    ELSE [label |-> label, ext |-> ""]

\* np.save appends .npy to a file name that lacks it
NpyFile(path) == [label |-> path.label, ext |-> ".npy"]

\* variant: the bundle is created once and reused by later sequences
FreshResultOnce(r, label, inc) ==
    IF "npy_array" \notin inc /\ r.tag = "unbound"
    THEN Dict([x \in {"label"} |-> label]) ELSE r

\* if "npy_array" not in args.include: result = {"label": label}
FreshResult(r, label, inc) ==
    IF "npy_array" \notin inc THEN Dict([x \in {"label"} |-> label]) ELSE r

\* variant: the loop stops after the first layer
LoopAssignFirst(r, order, reps, idx, n) ==
    IF order = <<>> THEN r
    ELSE Tensor("per_tok", PerTokSlice(reps[Head(order)], idx, n))

\* for layer, t in representations.items(): result = t[i, 1: len(strs[i]) + 1]
RECURSIVE LoopAssign(_, _, _, _, _)
LoopAssign(r, order, reps, idx, n) ==
    IF order = <<>> THEN r
    ELSE LoopAssign(Tensor("per_tok", PerTokSlice(reps[Head(order)], idx, n)),
                    Tail(order), reps, idx, n)

\* variant: in raw-array mode a `result` left by an earlier sequence is kept
PerTokStepStale(r, reps, idx, n, inc) ==
    IF "per_tok" \in inc
    THEN IF "npy_array" \notin inc
         THEN Dict(DictSet(r.val, "representations",
                   [layer \in DOMAIN reps |-> PerTokSlice(reps[layer], idx, n)]))
         ELSE IF r.tag = "tensor" THEN r
         ELSE LoopAssign(r, LayerOrder(reps), reps, idx, n)
    ELSE r

\* if "per_tok" in args.include: ...
PerTokStep(r, reps, idx, n, inc) ==
    IF "per_tok" \in inc
    THEN IF "npy_array" \notin inc
         THEN Dict(DictSet(r.val, "representations",
                   [layer \in DOMAIN reps |-> PerTokSlice(reps[layer], idx, n)]))
         ELSE LoopAssign(r, LayerOrder(reps), reps, idx, n)
    ELSE r

\* if "mean" in args.include: ...
MeanStep(r, reps, idx, n, inc) ==
    IF "mean" \in inc /\ "npy_array" \notin inc
    THEN Dict(DictSet(r.val, "mean_representations",
              [layer \in DOMAIN reps |-> MeanSlice(reps[layer], idx, n)]))
    ELSE r

\* if "bos" in args.include: ...
BosStep(r, reps, idx, inc) ==
    IF "bos" \in inc /\ "npy_array" \notin inc
    THEN Dict(DictSet(r.val, "bos_representations",
              [layer \in DOMAIN reps |-> BosOf(reps[layer], idx)]))
    ELSE r

\* `result` when the loop body of extract_arrays.py reaches its save
ArraysResult(r, label, reps, idx, n, inc) ==
    BosStep(MeanStep(PerTokStep(FreshResult(r, label, inc), reps, idx, n, inc),
                     reps, idx, n, inc),
            reps, idx, inc)

\* the output directory before any save
NoFiles == [x \in {} |-> x]

\* file path -> content after a successful save
Put(fs, path, content) ==
    [x \in (DOMAIN fs) \cup {path} |-> IF x = path THEN content ELSE fs[x]]

(* ------------------- the loop body of extract-myseq.py ----------------- *)
\* variant: the assignment is live
MyseqFreshLive(r, label) == Dict([x \in {"label"} |-> label])

\* #result = {"label": label}: the assignment is commented out
MyseqFresh(r, label) == r

\* result[key] = v, unless an exception is already propagating
SetItem(fr, key, v) ==
    IF fr.exc # "" THEN fr
    ELSE IF fr.result.tag = "unbound" THEN [fr EXCEPT !.exc = "NameError"]
    ELSE [fr EXCEPT !.result = Dict(DictSet(fr.result.val, key, v))]

\* for layer, t in representations.items(): res = t[i, 1: len(strs[i]) + 1].mean(0)
RECURSIVE LoopRes(_, _, _, _, _)
LoopRes(rs, order, reps, idx, n) ==
    IF order = <<>> THEN rs
    ELSE LoopRes(Tensor("mean", MeanSlice(reps[Head(order)], idx, n)),
                 Tail(order), reps, idx, n)

\* `result`, `res` and the exception raised, if any, when the loop body of
\* extract-myseq.py reaches its first save
MyseqFrame(r, rs, label, reps, idx, n, inc) ==
    LET f0 == [result |-> MyseqFresh(r, label), res |-> rs, exc |-> ""]
        f1 == IF "per_tok" \in inc
              THEN SetItem(f0, "representations",
                     [layer \in DOMAIN reps |-> PerTokSlice(reps[layer], idx, n)])
              ELSE f0
        f2 == IF "mean" \in inc
              THEN SetItem(f1, "mean_representations",
                     [layer \in DOMAIN reps |-> MeanSlice(reps[layer], idx, n)])
              ELSE f1
        f3 == IF f2.exc = ""
              THEN [f2 EXCEPT !.res = LoopRes(f2.res, LayerOrder(reps), reps, idx, n)]
              ELSE f2
    IN  IF "bos" \in inc
        THEN SetItem(f3, "bos_representations",
               [layer \in DOMAIN reps |-> BosOf(reps[layer], idx)])
        ELSE f3

(* ------------------------------ the run -------------------------------- *)
Halted == {"done", "AssertionError", "NameError", "IOError"}

\* the batch being processed
CurBatch == BatchOf(input, fileIdx, batchIdx)

\* where the loop over the batch's sequences goes after sequence idx
Continue(idx, batch) == IF idx + 1 < Len(batch) THEN "seq_loop" ELSE "batch_loop"

\* variant: the exception is swallowed and the loop goes on
WriteSwallowed(next) == next

\* torch.save / np.save raised: nothing catches it
WriteFailed(next) == "IOError"

InitCommon ==
    /\ pc = "start"
    /\ fileIdx = 0
    /\ batchIdx = 0
    /\ i = 0
    /\ repr_layers = <<>>
    /\ representations = <<>>
    /\ result = Unbound
    /\ res = Unbound
    /\ output_file = [label |-> 0, ext |-> ""]
    /\ outdir = FALSE
    /\ files = NoFiles
    /\ log = <<>>
    /\ forwards = 0

\* any --repr_layers list, one --include value, at most one sequence
InitLayerSweep ==
    /\ script \in {ARRAYS, MYSEQ}
    /\ include \in {{k} : k \in IncludeChoices(script)}
    /\ args_repr_layers \in ReprLayerArgs
    /\ input \in SmallInputs(script)
    /\ InitCommon

\* any --include, any input, a canonical --repr_layers list
InitInputSweep ==
    /\ script \in {ARRAYS, MYSEQ}
    /\ include \in IncludeArgs(script)
    /\ args_repr_layers \in CanonicalLayerArgs
    /\ input \in Inputs(script)
    /\ InitCommon

Init == InitLayerSweep \/ InitInputSweep

\* extract_arrays.py: the dataset is read and output_dir created
ReadDataset ==
    /\ pc = "start"
    /\ script = ARRAYS
    /\ fileIdx' = 1
    /\ outdir' = TRUE
    /\ pc' = "assert"
    /\ UNCHANGED <<script, include, args_repr_layers, input, batchIdx, i,
                   repr_layers, representations, result, res, output_file,
                   files, log, forwards>>

\* extract-myseq.py: glob lists the folder's *.fa files
GlobFolder ==
    /\ pc = "start"
    /\ script = MYSEQ
    /\ pc' = "file_loop"
    /\ UNCHANGED <<script, include, args_repr_layers, input, fileIdx, batchIdx,
                   i, repr_layers, representations, result, res, output_file,
                   outdir, files, log, forwards>>

\* extract-myseq.py: the next file is read and output_dir created; after
\* the last file the run ends
NextFile ==
    /\ pc = "file_loop"
    /\ IF fileIdx < input.nFiles
       THEN /\ fileIdx' = fileIdx + 1
            /\ outdir' = TRUE
            /\ pc' = "assert"
       ELSE /\ pc' = "done"
            /\ UNCHANGED <<fileIdx, outdir>>
    /\ UNCHANGED <<script, include, args_repr_layers, input, batchIdx, i,
                   repr_layers, representations, result, res, output_file,
                   files, log, forwards>>

\* the assertion on args.repr_layers, then their normalisation
AssertLayers ==
    /\ pc = "assert"
    /\ IF AssertHolds(args_repr_layers)
       THEN /\ repr_layers' = NormalizeLayers(args_repr_layers)
            /\ batchIdx' = 0
            /\ pc' = "batch_loop"
       ELSE /\ pc' = "AssertionError"
            /\ UNCHANGED <<repr_layers, batchIdx>>
    /\ UNCHANGED <<script, include, args_repr_layers, input, fileIdx, i,
                   representations, result, res, output_file, outdir, files,
                   log, forwards>>

\* the data loader yields the next batch and the model runs on it
ForwardPass ==
    /\ pc = "batch_loop"
    /\ batchIdx < NumBatches(input, fileIdx)
    /\ batchIdx' = batchIdx + 1
    /\ representations' = Forward(BatchOf(input, fileIdx, batchIdx + 1), repr_layers)
    /\ forwards' = forwards + 1
    /\ i' = 0
    /\ pc' = "seq_loop"
    /\ UNCHANGED <<script, include, args_repr_layers, input, fileIdx,
                   repr_layers, result, res, output_file, outdir, files, log>>

\* the data loader is exhausted
EndBatches ==
    /\ pc = "batch_loop"
    /\ batchIdx = NumBatches(input, fileIdx)
    /\ pc' = IF script = ARRAYS THEN "done" ELSE "file_loop"
    /\ UNCHANGED <<script, include, args_repr_layers, input, fileIdx, batchIdx,
                   i, repr_layers, representations, result, res, output_file,
                   outdir, files, log, forwards>>

\* extract_arrays.py: one pass of the loop over the sequences of a batch
ProcessSequenceArrays ==
    /\ pc = "seq_loop"
    /\ script = ARRAYS
    /\ LET s == CurBatch[i + 1]
           of == OutputFile(s.label, include)
           r == ArraysResult(result, s.label, representations, i, s.len, include)
           target == IF "npy_array" \notin include THEN of ELSE NpyFile(of)
           content == [fmt |-> IF "npy_array" \notin include THEN "pt" ELSE "npy",
                       kind |-> r.kind, data |-> r.val]
       IN  /\ output_file' = of
           /\ result' = r
           /\ IF r.tag = "unbound"
              THEN /\ pc' = "NameError"
                   /\ UNCHANGED <<files, log, i>>
              ELSE \E ok \in BOOLEAN :
                   /\ log' = Append(log, [label |-> s.label, path |-> target, ok |-> ok])
                   /\ files' = IF ok THEN Put(files, target, content) ELSE files
                   /\ pc' = IF ok THEN Continue(i, CurBatch)
                            ELSE WriteFailed(Continue(i, CurBatch))
                   /\ i' = IF pc' \in Halted THEN i ELSE i + 1
    /\ UNCHANGED <<script, include, args_repr_layers, input, fileIdx, batchIdx,
                   repr_layers, representations, res, outdir, forwards>>

\* extract-myseq.py: one pass of the loop over the sequences of a batch
ProcessSequenceMyseq ==
    /\ pc = "seq_loop"
    /\ script = MYSEQ
    /\ LET s == CurBatch[i + 1]
           of == [label |-> s.label, ext |-> ""]
           fr == MyseqFrame(result, res, s.label, representations, i, s.len, include)
       IN  /\ output_file' = of
           /\ result' = fr.result
           /\ res' = fr.res
           /\ IF fr.exc # ""
              THEN /\ pc' = fr.exc
                   /\ UNCHANGED <<files, log, i>>
              ELSE /\ files' = Put(Put(files, NpyFile(of),
                                       [fmt |-> "npy", kind |-> fr.res.kind,
                                        data |-> fr.res.val]),
                                   of, [fmt |-> "pt", kind |-> fr.result.kind,
                                        data |-> fr.result.val])
                   /\ log' = log \o <<[label |-> s.label, path |-> NpyFile(of), ok |-> TRUE],
                                      [label |-> s.label, path |-> of, ok |-> TRUE]>>
                   /\ pc' = Continue(i, CurBatch)
                   /\ i' = i + 1
    /\ UNCHANGED <<script, include, args_repr_layers, input, fileIdx, batchIdx,
                   repr_layers, representations, outdir, forwards>>

Next ==
    \/ ReadDataset
    \/ GlobFolder
    \/ NextFile
    \/ AssertLayers
    \/ ForwardPass
    \/ EndBatches
    \/ ProcessSequenceArrays
    \/ ProcessSequenceMyseq

Spec == Init /\ [][Next]_vars

(* --------------------- what the input determines ----------------------- *)
\* labels are positions in the input
SeqOf(label) == input.seqs[label]

\* the layers the model returns: the normalised requests
RequestedLayers == Range(repr_layers)

\* the entries of a sequence's residues, BOS, and everything after the
\* last residue, in a row of a layer tensor of its batch
ResidueVals(layer, s) == [k \in 1..s.len |-> Val(layer, s.label, k)]

BosVal(layer, s) == Val(layer, s.label, 0)

PaddingVals(layer, s) == {Val(layer, s.label, p) : p \in (s.len + 1)..(MaxLen + 1)}

KeyOf(kind) ==
    CASE kind = "per_tok" -> "representations"
      [] kind = "mean" -> "mean_representations"
      [] kind = "bos" -> "bos_representations"

Kinds == {"per_tok", "mean", "bos"}

\* the run has passed the assertion on the layer indices
Normalised == repr_layers # <<>>

\* the sequences of the input, in the order the run meets them
NumSeqs == Len(input.seqs)

(* ------------------------------- C1 ------------------------------------ *)
\* C1 as stated: every normalised index lies in [0, L] and two distinct
\* valid indices normalise to distinct values
C1_Injective ==
    Normalised =>
        \A j, k \in 1..Len(args_repr_layers) :
            /\ repr_layers[k] \in 0..NumLayers
            /\ (args_repr_layers[j] # args_repr_layers[k]
                  => repr_layers[j] # repr_layers[k])

\* C1 amended: every normalised index lies in [0, L], and two valid
\* indices normalise to the same value exactly when they are equal or
\* differ by L + 1
C1_InjectiveUpToWrap ==
    Normalised =>
        \A j, k \in 1..Len(args_repr_layers) :
            /\ repr_layers[k] \in 0..NumLayers
            /\ (repr_layers[j] = repr_layers[k]
                  <=> args_repr_layers[j] - args_repr_layers[k]
                        \in {0, NumLayers + 1, -(NumLayers + 1)})

\* a negative and a non-negative index were normalised to the same layer
C1_Witness ==
    /\ Normalised
    /\ \E j, k \in 1..Len(args_repr_layers) :
          /\ args_repr_layers[j] < 0
          /\ args_repr_layers[k] >= 0
          /\ repr_layers[j] = repr_layers[k]

(* ------------------------------- C2 ------------------------------------ *)
\* C2 as stated: with an index outside [-(L+1), L] no forward pass runs,
\* nothing is written, and a run that has ended has ended in the
\* assertion failure
C2_AbortsOnBadLayer ==
    ~AssertHolds(args_repr_layers) =>
        /\ forwards = 0
        /\ log = <<>>
        /\ files = NoFiles
        /\ (pc \in Halted => pc = "AssertionError")

\* C2, the part the code keeps: with an index outside [-(L+1), L] no
\* forward pass runs and nothing is written
C2_NothingRunsOnBadLayer ==
    ~AssertHolds(args_repr_layers) =>
        forwards = 0 /\ log = <<>> /\ files = NoFiles

(* ------------------------------- C3 ------------------------------------ *)
\* C3 as stated: a run with --include per_tok (valid layers, no write
\* failure) ends normally with exactly one file per sequence, at a path
\* made from the sequence's label, whose per-token array has the
\* sequence's residue count for every requested layer
C3_OneFilePerSequence ==
    (/\ include = {"per_tok"}
     /\ AssertHolds(args_repr_layers)
     /\ pc \in Halted
     /\ pc # "IOError")
    => /\ pc = "done"
       /\ Cardinality(DOMAIN files) = NumSeqs
       /\ \A k \in 1..NumSeqs :
            \E path \in DOMAIN files :
               /\ path.label = input.seqs[k].label
               /\ \A layer \in RequestedLayers :
                    Len(files[path].data["representations"][layer])
                      = input.seqs[k].len

(* ------------------------------- C4 ------------------------------------ *)
\* the run is inside the loop over the sequences of a batch
InBatch == pc \in {"seq_loop", "NameError", "IOError"}

\* C4: for every sequence of the current batch and every layer tensor,
\* the row has at least len + 1 positions and the per-token slice has
\* exactly len entries, the entries of positions 1..len of the sequence's
\* own row, none of them the BOS entry or an entry after the last
\* residue; and every per-token array written is such a slice
C4_SliceIsResidues ==
    /\ InBatch =>
         \A idx \in 0..(Len(CurBatch) - 1) :
           \A layer \in DOMAIN representations :
             LET s == CurBatch[idx + 1]
                 sl == PerTokSlice(representations[layer], idx, s.len)
             IN  /\ Len(representations[layer][idx + 1]) >= s.len + 1
                 /\ Len(sl) = s.len
                 /\ sl = ResidueVals(layer, s)
                 /\ \A k \in 1..Len(sl) :
                      sl[k] # BosVal(layer, s) /\ sl[k] \notin PaddingVals(layer, s)
    /\ \A path \in DOMAIN files :
         LET c == files[path]
             s == SeqOf(path.label)
         IN  /\ (c.kind = "bundle" /\ "representations" \in DOMAIN c.data)
                  => \A layer \in DOMAIN c.data["representations"] :
                       c.data["representations"][layer] = ResidueVals(layer, s)
             /\ c.kind = "per_tok"
                  => \E layer \in RequestedLayers : c.data = ResidueVals(layer, s)

\* a per-token bundle was written for a sequence shorter than another
\* sequence of its batch, so its row carries padding
C4_Witness ==
    \E path \in DOMAIN files :
       /\ files[path].kind = "bundle"
       /\ "representations" \in DOMAIN files[path].data
       /\ SeqOf(path.label).len >= 1
       /\ \E k \in 1..NumSeqs :
            /\ input.seqs[k].batch = SeqOf(path.label).batch
            /\ input.seqs[k].len > SeqOf(path.label).len

(* -------------------- expected content of a file ----------------------- *)
MeanOfResidues(layer, s) == [sum |-> SeqSum(ResidueVals(layer, s)), n |-> s.len]

\* the bundle of a sequence: its label and one mapping per requested kind
ExpBundle(s) ==
    [key \in {"label"} \cup {KeyOf(k) : k \in include \cap Kinds} |->
        IF key = "label" THEN s.label
        ELSE [layer \in RequestedLayers |->
                CASE key = "representations" -> ResidueVals(layer, s)
                  [] key = "mean_representations" -> MeanOfResidues(layer, s)
                  [] key = "bos_representations" -> BosVal(layer, s)]]

\* what extract_arrays.py is to write for a sequence
ExpContent(s) ==
    IF "npy_array" \notin include
    THEN [fmt |-> "pt", kind |-> "bundle", data |-> ExpBundle(s)]
    ELSE [fmt |-> "npy", kind |-> "per_tok",
          data |-> ResidueVals(SetMax(RequestedLayers), s)]

ExpPath(s) ==
    [label |-> s.label,
     ext |-> IF "npy_array" \notin include THEN ".pt" ELSE ".npy"]

(* ------------------------------- C5 ------------------------------------ *)
\* C5: in extract_arrays.py a failed write is the last write attempted
\* (no retry, nothing for later sequences or batches), the run has halted
\* there, every earlier sequence was written once, in order, and the
\* output directory holds exactly those files with their content
C5_HaltsAtFailedWrite ==
    script = ARRAYS =>
      /\ pc = "IOError" => (log # <<>> /\ ~log[Len(log)].ok)
      /\ \A k \in 1..Len(log) :
           /\ log[k].label = k
           /\ ~log[k].ok =>
                /\ k = Len(log)
                /\ pc = "IOError"
                /\ \A j \in 1..(k - 1) : log[j].ok
                /\ DOMAIN files = {ExpPath(SeqOf(j)) : j \in 1..(k - 1)}
                /\ \A j \in 1..(k - 1) :
                     files[ExpPath(SeqOf(j))] = ExpContent(SeqOf(j))

\* the write of the second sequence failed, and the first one's file stays
C5_Witness ==
    /\ script = ARRAYS
    /\ pc = "IOError"
    /\ Len(log) = 2
    /\ Cardinality(DOMAIN files) = 1

(* ------------------------------- C6 ------------------------------------ *)
\* C6: in bundle mode every file holds a bundle with the label of its own
\* sequence and exactly one mapping per requested kind, each keyed by
\* exactly the normalised requested layers
C6_BundleShape ==
    (script = ARRAYS /\ "npy_array" \notin include) =>
      \A path \in DOMAIN files :
        LET d == files[path].data
        IN  /\ files[path].fmt = "pt"
            /\ path.ext = ".pt"
            /\ DOMAIN d = {"label"} \cup {KeyOf(k) : k \in include}
            /\ d["label"] = path.label
            /\ \A key \in DOMAIN d \ {"label"} : DOMAIN d[key] = RequestedLayers

\* two bundles written, two kinds and two layers requested
C6_Witness ==
    /\ script = ARRAYS
    /\ "npy_array" \notin include
    /\ Cardinality(include) = 2
    /\ Cardinality(RequestedLayers) = 2
    /\ Cardinality(DOMAIN files) = 2

(* ------------------------------- C7 ------------------------------------ *)
\* the kind the loop body handles last among those requested
LastKind(inc) ==
    IF "bos" \in inc THEN "bos" ELSE IF "mean" \in inc THEN "mean" ELSE "per_tok"

\* the value of a kind for a sequence at a layer
KindValue(kind, layer, s) ==
    CASE kind = "per_tok" -> ResidueVals(layer, s)
      [] kind = "mean" -> MeanOfResidues(layer, s)
      [] kind = "bos" -> BosVal(layer, s)

IsResidueMean(m, layer, s) ==
    /\ m.n > 0
    /\ m.sum * s.len = SeqSum(ResidueVals(layer, s)) * m.n

\* C8: for a sequence with at least one residue, every mean written is,
\* for every requested layer, the mean of positions 1..len of the
\* sequence's own row (mean * len = sum of the per-token slice written
\* beside it); likewise the mean extract-myseq.py holds in `res`
C8_MeanOfSlice ==
    /\ \A path \in DOMAIN files :
         LET d == files[path].data
             s == SeqOf(path.label)
         IN  (/\ files[path].kind = "bundle"
              /\ "mean_representations" \in DOMAIN d
              /\ s.len >= 1)
             => /\ DOMAIN d["mean_representations"] = RequestedLayers
                /\ \A layer \in RequestedLayers :
                     LET m == d["mean_representations"][layer]
                     IN  /\ IsResidueMean(m, layer, s)
                         /\ "representations" \in DOMAIN d
                              => m.sum * s.len
                                   = SeqSum(d["representations"][layer]) * m.n
    /\ (script = MYSEQ /\ res.tag = "tensor" /\ SeqOf(output_file.label).len >= 1)
         => IsResidueMean(res.val, SetMax(RequestedLayers), SeqOf(output_file.label))

\* a mean was written for a sequence of two or more residues whose row
\* carries padding
C8_Witness ==
    \E path \in DOMAIN files :
       /\ files[path].kind = "bundle"
       /\ "mean_representations" \in DOMAIN files[path].data
       /\ SeqOf(path.label).len >= 2
       /\ \E k \in 1..NumSeqs :
            /\ input.seqs[k].batch = SeqOf(path.label).batch
            /\ input.seqs[k].len > SeqOf(path.label).len

(* ------------------------------- C9 ------------------------------------ *)
\* C9: in extract_arrays.py every file sits at the path of its own
\* sequence's label and holds what that sequence's label and row give,
\* every write goes to the path of the sequence being processed, and
\* `result` after a sequence's pass holds that sequence's value; in
\* raw-array mode without per_tok `result` stays unbound, nothing is
\* written and the run stops in the first sequence's pass
C9_NoLeakage ==
    script = ARRAYS =>
      /\ \A path \in DOMAIN files :
           /\ path = ExpPath(SeqOf(path.label))
           /\ files[path] = ExpContent(SeqOf(path.label))
      /\ \A k \in 1..Len(log) : log[k].path = ExpPath(SeqOf(log[k].label))
      /\ result.tag # "unbound"
           => result.val = ExpContent(SeqOf(output_file.label)).data
      /\ ("npy_array" \in include /\ "per_tok" \notin include)
           => /\ result = Unbound
              /\ files = NoFiles
              /\ log = <<>>
              /\ i = 0
              /\ forwards <= 1
              /\ forwards = 1 => pc \in {"seq_loop", "NameError"}
      /\ pc = "NameError"
           => ("npy_array" \in include /\ "per_tok" \notin include /\ forwards = 1)

\* raw-array mode: the second sequence of a batch was written after the
\* first, `result` still bound from the first
C9_Witness ==
    /\ script = ARRAYS
    /\ "npy_array" \in include
    /\ Cardinality(DOMAIN files) = 2
    /\ batchIdx = 1

(* ------------------------------- C10 ----------------------------------- *)
\* what C10 says of a run of extract-myseq.py that has ended
MyseqStoppedAtFirstSequence ==
    /\ pc = "NameError"
    /\ outdir
    /\ forwards = 1
    /\ batchIdx = 1
    /\ i = 0
    /\ fileIdx = input.seqs[1].file

\* C10 as stated: extract-myseq.py never binds `result` and never writes
\* a file, and on every input with at least one sequence a run that has
\* ended has ended in a NameError in the first sequence of the first
\* non-empty file, after one forward pass
C10_MyseqNeverWrites ==
    script = MYSEQ =>
      /\ result = Unbound
      /\ files = NoFiles
      /\ log = <<>>
      /\ (pc \in Halted /\ NumSeqs >= 1) => MyseqStoppedAtFirstSequence

\* C10 amended: the same, for runs whose --repr_layers are all in range
C10_MyseqNeverWritesValidLayers ==
    script = MYSEQ =>
      /\ result = Unbound
      /\ files = NoFiles
      /\ log = <<>>
      /\ (pc \in Halted /\ NumSeqs >= 1 /\ AssertHolds(args_repr_layers))
           => MyseqStoppedAtFirstSequence

\* extract-myseq.py stopped in the second file, the first holding no sequence
C10_Witness ==
    /\ script = MYSEQ
    /\ pc = "NameError"
    /\ fileIdx = 2

====
